---- MODULE Spec2Model ----
(***************************************************************************)
(* The quiz generator: the two request-orchestration functions of          *)
(* services/geminiService.ts (extractTopicsFromGuide,                      *)
(* generateQuizQuestions) and the session state machine of the App         *)
(* component (its useState fields and its event handlers).                 *)
(*                                                                         *)
(* Conventions.  A nullable value (File | null, string | null) is a        *)
(* sequence of length 0 (null) or 1.  Array indices stored in the state    *)
(* (currentQuestionIndex, questionIndex, answerIndex) are 0-based as in    *)
(* the code; At(a, i) reads a[i].  An async handler that is suspended at   *)
(* an await is a record of `tasks` holding its position and its locals.    *)
(***************************************************************************)
EXTENDS Integers, Sequences, FiniteSets

VARIABLES appState, file, fileData, topics, selectedTopics, questionCount,
          quizData, currentQuestionIndex, userAnswers, error, loadingMessage,
          mounted, tasks

vars == <<appState, file, fileData, topics, selectedTopics, questionCount,
          quizData, currentQuestionIndex, userAnswers, error, loadingMessage,
          mounted, tasks>>

session == <<appState, file, fileData, topics, selectedTopics, questionCount,
             quizData, currentQuestionIndex, userAnswers, error, loadingMessage>>

----------------------------------------------------------------------------
(* Bounds of the model *)

\* longest question array the client returns in the session specification
MaxReturned == 2

\* longest question array the client returns in the generator specification
MaxLongReturned == 10

\* questions in a response where only the arrival of the response matters
MaxLiveReturned == 1

----------------------------------------------------------------------------
(* types.ts *)

SETUP == "SETUP"
ANALYZING == "ANALYZING"
GENERATING == "GENERATING"
TAKING_QUIZ == "TAKING_QUIZ"
REVIEW == "REVIEW"

AppState == {SETUP, ANALYZING, GENERATING, TAKING_QUIZ, REVIEW}

Null == <<>>
Some(x) == <<x>>

At(a, i) == a[i + 1]
Indices(a) == 0 .. (Len(a) - 1)

----------------------------------------------------------------------------
(* Program constants *)

DefaultQuestionCount == 10
MinQuestionCount == 5
MaxQuestionCount == 50
minItems == 4
maxItems == 4

NotGuideMessage == "The uploaded document does not appear to be a valid exam guide. Please upload a relevant file."
NoTopicsMessage == "Could not find any topics in the document. Please try a different file."
UnknownAnalysisMessage == "An unknown error occurred during analysis."
SelectTopicMessage == "Please upload a guide and select at least one topic."
FailedToGenerateMessage == "Failed to generate quiz."
AnalyzingMessage == "Analyzing your exam guide..."
GeneratingMessage == "Generating your custom quiz... This may take a moment."
NoSourcesText == "No external sources found. Please rely solely on the provided exam guide."
UseSourcesText == "Use the following official sources as the primary reference for generating questions:"

----------------------------------------------------------------------------
(* The environment: the files the user picks and what the content-generation
   client answers *)

Files == {[name |-> "guide.pdf", type |-> "application/pdf"]}

\* a value a rejected promise carries: an Error with its message, or a value
\* that is no Error (FileReader's onerror event)
TransportError == [isError |-> TRUE, message |-> "Network request failed"]
SyntaxError == [isError |-> TRUE, message |-> "Unexpected end of JSON input"]
TypeError == [isError |-> TRUE, message |-> "Cannot read properties of undefined"]
ProgressEvent == [isError |-> FALSE, message |-> "error"]
Thrown == {TransportError, [isError |-> FALSE, message |-> "aborted"]}

TopicLists == {Null, Some(<<>>), Some(<<"Networking", "Security">>)}

\* the parsed JSON of an extraction response (schema of lines 31-44);
\* a missing isGuide is falsy and is FALSE here
ExtractResponses == [isGuide : BOOLEAN, topics : TopicLists]

WebChunk(n) == [web |-> Some([title |-> n, uri |-> n])]
NoWebChunk == [web |-> Null]

\* searchResponse.candidates?.[0]?.groundingMetadata, with its groundingChunks
GroundingResponses ==
  { [groundingMetadata |-> Null],
    [groundingMetadata |-> Some([groundingChunks |-> Null])],
    [groundingMetadata |-> Some([groundingChunks |-> Some(<<>>)])],
    [groundingMetadata |-> Some([groundingChunks |-> Some(<<WebChunk(1)>>)])],
    [groundingMetadata |-> Some([groundingChunks |-> Some(<<WebChunk(1), WebChunk(2)>>)])],
    [groundingMetadata |-> Some([groundingChunks |-> Some(<<NoWebChunk>>)])] }

\* an answer choice as the model writes it: the text and the feedback go with
\* the correctness flag
MkAnswer(flag) ==
  [text |-> IF flag THEN "correct choice" ELSE "distractor",
   isCorrect |-> flag,
   feedback |-> IF flag THEN "why it is correct" ELSE "why it is incorrect"]

\* the n-th question of a response, with one answer per flag
MkQuestion(n, flags) ==
  [question |-> n,
   answers |-> [k \in 1 .. Len(flags) |-> MkAnswer(flags[k])],
   source |-> [title |-> n, url |-> n]]

Flags(n) == [1 .. n -> BOOLEAN]

\* a schema whose maxItems is one too large
AnswersSchema_MaxFive(flags) == Len(flags) >= minItems /\ Len(flags) <= maxItems + 1

\* responseSchema, answers: minItems 4, maxItems 4 (the client returns only
\* JSON that matches the schema it was given)
AnswersSchema(flags) == Len(flags) >= minItems /\ Len(flags) <= maxItems

\* the flag patterns of the answer arrays the schema lets through
SchemaPatterns ==
  {f \in UNION {Flags(n) : n \in (minItems - 1) .. (maxItems + 1)} : AnswersSchema(f)}

Correct(f) == {k \in DOMAIN f : f[k]}

\* zero, one and two correct answers
LongPatterns ==
  {f \in SchemaPatterns : Correct(f) \in {{}, {1}, {1, 2}}}

\* zero, one (first or last), two and all correct answers
SessionPatterns ==
  {f \in SchemaPatterns : Correct(f) \in {{}, {1}, {Len(f)}, {1, 2}, DOMAIN f}}

\* the question array of a response: one question per flag pattern; the
\* schema sets no length for the outer array
QuestionArray(f) == [n \in DOMAIN f |-> MkQuestion(n, f[n])]

----------------------------------------------------------------------------
(* services/geminiService.ts: the pure parts *)

\* fileToGenerativePart
fileToGenerativePart(base64, mimeType) ==
  [inlineData |-> [data |-> base64, mimeType |-> mimeType]]

\* a source list that is built even when there are no chunks
SourcesText_AlwaysList(groundingChunks) ==
  [text |-> UseSourcesText,
   sources |-> [k \in DOMAIN groundingChunks |->
                  [title |-> groundingChunks[k].web[1].title,
                   url |-> groundingChunks[k].web[1].uri]]]

\* lines 82-88: the text handed to the generation prompt
SourcesText(groundingChunks) ==
  IF Len(groundingChunks) > 0
  THEN [text |-> UseSourcesText,
        sources |-> [k \in DOMAIN groundingChunks |->
                       [title |-> groundingChunks[k].web[1].title,
                        url |-> groundingChunks[k].web[1].uri]]]
  ELSE [text |-> NoSourcesText, sources |-> <<>>]

\* line 80: groundingMetadata?.groundingChunks || []
GroundingChunks(searchResponse) ==
  IF searchResponse.groundingMetadata = Null THEN <<>>
  ELSE IF searchResponse.groundingMetadata[1].groundingChunks = Null THEN <<>>
  ELSE searchResponse.groundingMetadata[1].groundingChunks[1]

\* a count that looks at the first answer only
CorrectAnswers_FirstOnly(q) == IF q.answers[1].isCorrect THEN 1 ELSE 0

\* q.answers.filter(a => a.isCorrect).length
CorrectAnswers(q) == Len(SelectSeq(q.answers, LAMBDA a : a.isCorrect))

\* a validation that asks for at least one correct answer
FinalValidation_AtLeastOne(parsed) == SelectSeq(parsed, LAMBDA q : CorrectAnswers(q) >= 1)

\* line 177: quizData.filter(q => q.answers.filter(a => a.isCorrect).length === 1)
FinalValidation(parsed) == SelectSeq(parsed, LAMBDA q : CorrectAnswers(q) = 1)

\* the request of extractTopicsFromGuide (lines 26-46)
ExtractRequest(base64, mimeType) ==
  [model |-> "gemini-2.5-flash", part |-> fileToGenerativePart(base64, mimeType),
   googleSearch |-> FALSE, responseSchema |-> "topics",
   topics |-> <<>>, sourcesText |-> Null, questionCount |-> Null]

\* the grounding request (lines 64-77)
SearchRequest(base64, mimeType, selected) ==
  [model |-> "gemini-2.5-pro", part |-> fileToGenerativePart(base64, mimeType),
   googleSearch |-> TRUE, responseSchema |-> "none",
   topics |-> selected, sourcesText |-> Null, questionCount |-> Null]

\* the generation request (lines 91-172): the prompt carries sourcesText,
\* the question count and the topics
GenerationRequest(base64, mimeType, selected, count, sourcesText) ==
  [model |-> "gemini-2.5-pro", part |-> fileToGenerativePart(base64, mimeType),
   googleSearch |-> FALSE, responseSchema |-> "quiz",
   topics |-> selected, sourcesText |-> Some(sourcesText), questionCount |-> Some(count)]

----------------------------------------------------------------------------
(* App: the pure parts *)

\* readAsDataURL, then the part of the data URL after the comma
fileToBase64(f) == <<"base64", f.name>>

Injective(p) == \A i, j \in DOMAIN p : p[i] = p[j] => i = j
Permutations(n) == {p \in [1 .. n -> 1 .. n] : Injective(p)}

\* a shuffle that draws every position independently, with replacement
shuffleArray_WithReplacement(array) ==
  {[i \in 1 .. Len(array) |-> array[p[i]]] : p \in [1 .. Len(array) -> 1 .. Len(array)]}

\* [...array].sort(() => Math.random() - 0.5): the orders the sort can leave
\* a copy of the array in, one per outcome of the random comparisons (the
\* engines' sorts only move elements, so each outcome is a permutation)
shuffleArray(array) ==
  {[i \in 1 .. Len(array) |-> array[p[i]]] : p \in Permutations(Len(array))}

\* lines 293-296: shuffleArray(questions).map(q => ({...q, answers: shuffleArray(q.answers)}))
RECURSIVE ShuffleAnswers(_)
ShuffleAnswers(qs) ==
  IF qs = <<>> THEN {<<>>}
  ELSE {<<[qs[1] EXCEPT !.answers = a]>> \o rest :
          a \in shuffleArray(qs[1].answers), rest \in ShuffleAnswers(Tail(qs))}

RandomizedQuestions(questions) ==
  UNION {ShuffleAnswers(qs) : qs \in shuffleArray(questions)}

\* an updater that appends on every selection
AnswerSelect_Append(prev, questionIndex, answerIndex) ==
  Append(prev, [questionIndex |-> questionIndex, answerIndex |-> answerIndex])

\* an updater that keeps only the answer just given
AnswerSelect_KeepsOnlyCurrent(prev, questionIndex, answerIndex) ==
  <<[questionIndex |-> questionIndex, answerIndex |-> answerIndex]>>

\* lines 309-315: the updater handed to setUserAnswers
AnswerSelect(prev, questionIndex, answerIndex) ==
  IF \E k \in DOMAIN prev : prev[k].questionIndex = questionIndex
  THEN [k \in DOMAIN prev |->
          IF prev[k].questionIndex = questionIndex
          THEN [prev[k] EXCEPT !.answerIndex = answerIndex]
          ELSE prev[k]]
  ELSE Append(prev, [questionIndex |-> questionIndex, answerIndex |-> answerIndex])

\* lines 339-340: reading quizData[i] or question.answers[j] past the end
\* gives undefined, and the property read on it throws
ScoreThrows(ua, qd) ==
  \E k \in DOMAIN ua :
     \/ ua[k].questionIndex \notin Indices(qd)
     \/ ua[k].answerIndex \notin Indices(At(qd, ua[k].questionIndex).answers)

\* a reducer that counts every user answer
Reduce_CountAll(ua, qd, correctCount) == correctCount + Len(ua)

\* lines 337-343: userAnswers.reduce(..., 0)
RECURSIVE Reduce(_, _, _)
Reduce(ua, qd, correctCount) ==
  IF ua = <<>> THEN correctCount
  ELSE LET question == At(qd, ua[1].questionIndex)
           answer == At(question.answers, ua[1].answerIndex)
       IN Reduce(Tail(ua), qd, IF answer.isCorrect THEN correctCount + 1 ELSE correctCount)

Score(ua, qd) == Reduce(ua, qd, 0)
score == Score(userAnswers, quizData)

\* line 428: userAnswers.find(a => a.questionIndex === currentQuestionIndex)?.answerIndex
UserAnswerIndex(ua, idx) ==
  IF \E k \in DOMAIN ua : ua[k].questionIndex = idx
  THEN Some((ua[CHOOSE k \in DOMAIN ua :
                   /\ ua[k].questionIndex = idx
                   /\ \A m \in DOMAIN ua : ua[m].questionIndex = idx => k <= m]).answerIndex)
  ELSE Null

\* a render that throws: the score of the component body, or renderQuiz
\* reading question.question of an undefined question (lines 427, 433)
RenderThrows(st, qd, idx, ua) ==
  \/ ScoreThrows(ua, qd)
  \/ st = TAKING_QUIZ /\ idx \notin Indices(qd)

----------------------------------------------------------------------------
(* App: the state after the first render (lines 232-242) *)

Init ==
  /\ appState = SETUP
  /\ file = Null
  /\ fileData = Null
  /\ topics = <<>>
  /\ selectedTopics = <<>>
  /\ questionCount = DefaultQuestionCount
  /\ quizData = <<>>
  /\ currentQuestionIndex = 0
  /\ userAnswers = <<>>
  /\ error = Null
  /\ loadingMessage = ""
  /\ mounted = TRUE
  /\ tasks = <<>>

\* the render that follows a state change: an error thrown while rendering
\* unmounts the component tree (there is no error boundary)
Render ==
  mounted' = (mounted /\ ~RenderThrows(appState', quizData', currentQuestionIndex', userAnswers'))

RemoveAt(s, i) == SubSeq(s, 1, i - 1) \o SubSeq(s, i + 1, Len(s))

\* the values the user drags the range input to (min 5, max 50)
SliderValues == {MinQuestionCount, MaxQuestionCount}

NewTask(op, pc) ==
  [op |-> op, pc |-> pc, selectedFile |-> Null, fileData |-> Null,
   selectedTopics |-> <<>>, questionCount |-> Null, requests |-> <<>>,
   sourcesText |-> Null, response |-> <<>>, questions |-> <<>>]

----------------------------------------------------------------------------
(* handleFileChange (lines 244-275) *)

\* handleFileChange without setAppState(AppState.ANALYZING): the Setup screen
\* and its file input stay on while the upload is analysed
HandleFileChange_StaysInSetup(selectedFile) ==
  /\ mounted
  /\ appState = SETUP
  /\ error' = Null
  /\ topics' = <<>>
  /\ selectedTopics' = <<>>
  /\ file' = Some(selectedFile)
  /\ loadingMessage' = AnalyzingMessage
  /\ tasks' = Append(tasks, [NewTask("handleFileChange", "fileToBase64")
                               EXCEPT !.selectedFile = Some(selectedFile)])
  /\ UNCHANGED <<appState, fileData, questionCount, quizData, currentQuestionIndex,
                 userAnswers>>
  /\ Render

\* lines 246-254: up to the first await
HandleFileChange(selectedFile) ==
  /\ mounted
  /\ appState = SETUP
  /\ error' = Null
  /\ topics' = <<>>
  /\ selectedTopics' = <<>>
  /\ file' = Some(selectedFile)
  /\ appState' = ANALYZING
  /\ loadingMessage' = AnalyzingMessage
  /\ tasks' = Append(tasks, [NewTask("handleFileChange", "fileToBase64")
                               EXCEPT !.selectedFile = Some(selectedFile)])
  /\ UNCHANGED <<fileData, questionCount, quizData, currentQuestionIndex, userAnswers>>
  /\ Render

\* the catch block of handleFileChange without setAppState(AppState.SETUP)
HandleFileChangeCatch_NoFallback(i, err) ==
  /\ error' = Some(IF err.isError THEN err.message ELSE UnknownAnalysisMessage)
  /\ file' = Null
  /\ fileData' = Null
  /\ tasks' = RemoveAt(tasks, i)
  /\ UNCHANGED <<appState, topics, selectedTopics, questionCount, quizData,
                 currentQuestionIndex, userAnswers, loadingMessage>>
  /\ Render

\* a catch block that leaves the rejected file in place
HandleFileChangeCatch_KeepsFile(i, err) ==
  /\ error' = Some(IF err.isError THEN err.message ELSE UnknownAnalysisMessage)
  /\ appState' = SETUP
  /\ tasks' = RemoveAt(tasks, i)
  /\ UNCHANGED <<file, fileData, topics, selectedTopics, questionCount, quizData,
                 currentQuestionIndex, userAnswers, loadingMessage>>
  /\ Render

\* lines 267-273: the catch block
HandleFileChangeCatch(i, err) ==
  /\ error' = Some(IF err.isError THEN err.message ELSE UnknownAnalysisMessage)
  /\ file' = Null
  /\ fileData' = Null
  /\ appState' = SETUP
  /\ tasks' = RemoveAt(tasks, i)
  /\ UNCHANGED <<topics, selectedTopics, questionCount, quizData,
                 currentQuestionIndex, userAnswers, loadingMessage>>
  /\ Render

\* lines 254-256: the file is read; fileData is set and the extraction
\* request goes out
FileToBase64Resolves(i) ==
  /\ tasks[i].op = "handleFileChange"
  /\ tasks[i].pc = "fileToBase64"
  /\ LET selectedFile == tasks[i].selectedFile[1]
         base64 == fileToBase64(selectedFile)
     IN /\ fileData' = Some([base64 |-> base64, mimeType |-> selectedFile.type])
        /\ tasks' = [tasks EXCEPT ![i].pc = "extractTopicsFromGuide",
                                  ![i].fileData = Some([base64 |-> base64, mimeType |-> selectedFile.type]),
                                  ![i].requests = Append(@, ExtractRequest(base64, selectedFile.type))]
  /\ UNCHANGED <<appState, file, topics, selectedTopics, questionCount, quizData,
                 currentQuestionIndex, userAnswers, error, loadingMessage>>
  /\ Render

\* reader.onerror: the promise rejects with the event, which is no Error
FileToBase64Rejects(i) ==
  /\ tasks[i].op = "handleFileChange"
  /\ tasks[i].pc = "fileToBase64"
  /\ HandleFileChangeCatch(i, ProgressEvent)

\* the success branch without setSelectedTopics(extractedTopics)
ExtractTopicsReturns_NoneSelected(i, jsonResponse) ==
  /\ tasks[i].op = "handleFileChange"
  /\ tasks[i].pc = "extractTopicsFromGuide"
  /\ IF ~jsonResponse.isGuide
     THEN HandleFileChangeCatch(i, [isError |-> TRUE, message |-> NotGuideMessage])
     ELSE LET extractedTopics == IF jsonResponse.topics = Null THEN <<>>
                                 ELSE jsonResponse.topics[1]
          IN /\ IF Len(extractedTopics) = 0
                THEN /\ error' = Some(NoTopicsMessage)
                     /\ appState' = SETUP
                     /\ file' = Null
                     /\ fileData' = Null
                     /\ UNCHANGED <<topics, selectedTopics>>
                ELSE /\ topics' = extractedTopics
                     /\ appState' = SETUP
                     /\ UNCHANGED <<selectedTopics, error, file, fileData>>
             /\ tasks' = RemoveAt(tasks, i)
             /\ UNCHANGED <<questionCount, quizData, currentQuestionIndex,
                            userAnswers, loadingMessage>>
             /\ Render

\* the empty-list branch without setFile(null) and setFileData(null)
ExtractTopicsReturns_KeepsFile(i, jsonResponse) ==
  /\ tasks[i].op = "handleFileChange"
  /\ tasks[i].pc = "extractTopicsFromGuide"
  /\ IF ~jsonResponse.isGuide
     THEN HandleFileChangeCatch(i, [isError |-> TRUE, message |-> NotGuideMessage])
     ELSE LET extractedTopics == IF jsonResponse.topics = Null THEN <<>>
                                 ELSE jsonResponse.topics[1]
          IN /\ IF Len(extractedTopics) = 0
                THEN /\ error' = Some(NoTopicsMessage)
                     /\ appState' = SETUP
                     /\ UNCHANGED <<file, fileData, topics, selectedTopics>>
                ELSE /\ topics' = extractedTopics
                     /\ selectedTopics' = extractedTopics
                     /\ appState' = SETUP
                     /\ UNCHANGED <<error, file, fileData>>
             /\ tasks' = RemoveAt(tasks, i)
             /\ UNCHANGED <<questionCount, quizData, currentQuestionIndex,
                            userAnswers, loadingMessage>>
             /\ Render

\* extractTopicsFromGuide lines 48-53 on the parsed response, then
\* handleFileChange lines 257-266
ExtractTopicsReturns(i, jsonResponse) ==
  /\ tasks[i].op = "handleFileChange"
  /\ tasks[i].pc = "extractTopicsFromGuide"
  /\ IF ~jsonResponse.isGuide
     THEN HandleFileChangeCatch(i, [isError |-> TRUE, message |-> NotGuideMessage])
     ELSE LET extractedTopics == IF jsonResponse.topics = Null THEN <<>>
                                 ELSE jsonResponse.topics[1]
          IN /\ IF Len(extractedTopics) = 0
                THEN /\ error' = Some(NoTopicsMessage)
                     /\ appState' = SETUP
                     /\ file' = Null
                     /\ fileData' = Null
                     /\ UNCHANGED <<topics, selectedTopics>>
                ELSE /\ topics' = extractedTopics
                     /\ selectedTopics' = extractedTopics
                     /\ appState' = SETUP
                     /\ UNCHANGED <<error, file, fileData>>
             /\ tasks' = RemoveAt(tasks, i)
             /\ UNCHANGED <<questionCount, quizData, currentQuestionIndex,
                            userAnswers, loadingMessage>>
             /\ Render

\* the request rejects, or response.text does not parse (line 48)
ExtractTopicsFails(i, err) ==
  /\ tasks[i].op = "handleFileChange"
  /\ tasks[i].pc = "extractTopicsFromGuide"
  /\ HandleFileChangeCatch(i, err)

----------------------------------------------------------------------------
(* renderSetup: topic toggles, the slider (lines 277-281, 376-403) *)

Includes(s, x) == \E k \in DOMAIN s : s[k] = x

HandleTopicToggle(topic) ==
  /\ mounted
  /\ appState = SETUP
  /\ Includes(topics, topic)
  /\ selectedTopics' = IF Includes(selectedTopics, topic)
                       THEN SelectSeq(selectedTopics, LAMBDA t : t # topic)
                       ELSE Append(selectedTopics, topic)
  /\ UNCHANGED <<appState, file, fileData, topics, questionCount, quizData,
                 currentQuestionIndex, userAnswers, error, loadingMessage, tasks>>
  /\ Render

SetQuestionCount(value) ==
  /\ mounted
  /\ appState = SETUP
  /\ Len(topics) > 0
  /\ value >= MinQuestionCount
  /\ value <= MaxQuestionCount
  /\ questionCount' = value
  /\ UNCHANGED <<appState, file, fileData, topics, selectedTopics, quizData,
                 currentQuestionIndex, userAnswers, error, loadingMessage, tasks>>
  /\ Render

----------------------------------------------------------------------------
(* handleGenerateQuiz (lines 283-306) and generateQuizQuestions (lines 55-178) *)

\* handleGenerateQuiz with a guard that tests fileData only
HandleGenerateQuiz_ChecksFileOnly ==
  IF fileData = Null
  THEN /\ error' = Some(SelectTopicMessage)
       /\ UNCHANGED <<appState, file, fileData, topics, selectedTopics, questionCount,
                      quizData, currentQuestionIndex, userAnswers, loadingMessage, tasks>>
       /\ Render
  ELSE /\ error' = Null
       /\ appState' = GENERATING
       /\ loadingMessage' = GeneratingMessage
       /\ tasks' = Append(tasks,
            [NewTask("handleGenerateQuiz", "searchResponse")
               EXCEPT !.fileData = fileData,
                      !.selectedTopics = selectedTopics,
                      !.questionCount = Some(questionCount),
                      !.requests = <<SearchRequest(fileData[1].base64, fileData[1].mimeType,
                                                   selectedTopics)>>])
       /\ UNCHANGED <<file, fileData, topics, selectedTopics, questionCount,
                      quizData, currentQuestionIndex, userAnswers>>
       /\ Render

\* lines 284-292, and generateQuizQuestions up to its first await: the
\* handler reads fileData, selectedTopics and questionCount of this render
HandleGenerateQuiz ==
  IF fileData = Null \/ Len(selectedTopics) = 0
  THEN /\ error' = Some(SelectTopicMessage)
       /\ UNCHANGED <<appState, file, fileData, topics, selectedTopics, questionCount,
                      quizData, currentQuestionIndex, userAnswers, loadingMessage, tasks>>
       /\ Render
  ELSE /\ error' = Null
       /\ appState' = GENERATING
       /\ loadingMessage' = GeneratingMessage
       /\ tasks' = Append(tasks,
            [NewTask("handleGenerateQuiz", "searchResponse")
               EXCEPT !.fileData = fileData,
                      !.selectedTopics = selectedTopics,
                      !.questionCount = Some(questionCount),
                      !.requests = <<SearchRequest(fileData[1].base64, fileData[1].mimeType,
                                                   selectedTopics)>>])
       /\ UNCHANGED <<file, fileData, topics, selectedTopics, questionCount,
                      quizData, currentQuestionIndex, userAnswers>>
       /\ Render

\* the Generate Quiz button (lines 376, 405-411): rendered with the topics,
\* disabled while no topic is selected
ClickGenerateQuiz ==
  /\ mounted
  /\ appState = SETUP
  /\ Len(topics) > 0
  /\ Len(selectedTopics) # 0
  /\ HandleGenerateQuiz

\* the catch block showing the fixed text whatever was thrown
HandleGenerateQuizCatch_AlwaysGeneric(i, err) ==
  /\ error' = Some(FailedToGenerateMessage)
  /\ appState' = SETUP
  /\ tasks' = RemoveAt(tasks, i)
  /\ UNCHANGED <<file, fileData, topics, selectedTopics, questionCount, quizData,
                 currentQuestionIndex, userAnswers, loadingMessage>>
  /\ Render

\* lines 301-305: the catch block
HandleGenerateQuizCatch(i, err) ==
  /\ error' = Some(IF err.isError THEN err.message ELSE FailedToGenerateMessage)
  /\ appState' = SETUP
  /\ tasks' = RemoveAt(tasks, i)
  /\ UNCHANGED <<file, fileData, topics, selectedTopics, questionCount, quizData,
                 currentQuestionIndex, userAnswers, loadingMessage>>
  /\ Render

\* lines 79-129: the grounding response arrives; chunk.web.title of a chunk
\* without web throws; otherwise the generation request goes out
SearchReturns(i, searchResponse) ==
  /\ tasks[i].op = "handleGenerateQuiz"
  /\ tasks[i].pc = "searchResponse"
  /\ LET groundingChunks == GroundingChunks(searchResponse)
         t == tasks[i]
     IN IF \E k \in DOMAIN groundingChunks : groundingChunks[k].web = Null
        THEN HandleGenerateQuizCatch(i, TypeError)
        ELSE /\ tasks' = [tasks EXCEPT
                   ![i].pc = "questionGenResponse",
                   ![i].sourcesText = Some(SourcesText(groundingChunks)),
                   ![i].requests = Append(@,
                       GenerationRequest(t.fileData[1].base64, t.fileData[1].mimeType,
                                         t.selectedTopics, t.questionCount[1],
                                         SourcesText(groundingChunks)))]
             /\ UNCHANGED session
             /\ Render

\* a grounding failure that is swallowed: generation goes on without sources
SearchFails_StillGenerates(i, err) ==
  /\ tasks[i].op = "handleGenerateQuiz"
  /\ tasks[i].pc = "searchResponse"
  /\ LET t == tasks[i]
     IN tasks' = [tasks EXCEPT
           ![i].pc = "questionGenResponse",
           ![i].sourcesText = Some(SourcesText(<<>>)),
           ![i].requests = Append(@,
               GenerationRequest(t.fileData[1].base64, t.fileData[1].mimeType,
                                 t.selectedTopics, t.questionCount[1],
                                 SourcesText(<<>>)))]
  /\ UNCHANGED session
  /\ Render

\* the grounding request rejects
SearchFails(i, err) ==
  /\ tasks[i].op = "handleGenerateQuiz"
  /\ tasks[i].pc = "searchResponse"
  /\ HandleGenerateQuizCatch(i, err)

\* lines 174-177: the generation response parses to an array; the promise of
\* generateQuizQuestions resolves with the validated questions
GenerationReturns(i, parsed) ==
  /\ tasks[i].op = "handleGenerateQuiz"
  /\ tasks[i].pc = "questionGenResponse"
  /\ tasks' = [tasks EXCEPT ![i].pc = "questions",
                            ![i].response = parsed,
                            ![i].questions = FinalValidation(parsed)]
  /\ UNCHANGED session
  /\ Render

\* the generation request rejects, or questionGenResponse.text does not parse
GenerationFails(i, err) ==
  /\ tasks[i].op = "handleGenerateQuiz"
  /\ tasks[i].pc = "questionGenResponse"
  /\ HandleGenerateQuizCatch(i, err)

\* lines 292-300: the await of generateQuizQuestions resumes
HandleGenerateQuizResumes(i) ==
  /\ tasks[i].op = "handleGenerateQuiz"
  /\ tasks[i].pc = "questions"
  /\ \E randomizedQuestions \in RandomizedQuestions(tasks[i].questions) :
        quizData' = randomizedQuestions
  /\ currentQuestionIndex' = 0
  /\ userAnswers' = <<>>
  /\ appState' = TAKING_QUIZ
  /\ tasks' = RemoveAt(tasks, i)
  /\ UNCHANGED <<file, fileData, topics, selectedTopics, questionCount, error,
                 loadingMessage>>
  /\ Render

----------------------------------------------------------------------------
(* renderQuiz and renderReview: the quiz (lines 308-335, 426-475) *)

\* an answer handler that records every choice under the first question
HandleAnswerSelect_FirstQuestion(answerIndex) ==
  /\ mounted
  /\ appState = TAKING_QUIZ
  /\ answerIndex \in Indices(At(quizData, currentQuestionIndex).answers)
  /\ userAnswers' = AnswerSelect(userAnswers, 0, answerIndex)
  /\ UNCHANGED <<appState, file, fileData, topics, selectedTopics, questionCount,
                 quizData, currentQuestionIndex, error, loadingMessage, tasks>>
  /\ Render

\* an answer button of the current question (lines 436-441)
HandleAnswerSelect(answerIndex) ==
  /\ mounted
  /\ appState = TAKING_QUIZ
  /\ answerIndex \in Indices(At(quizData, currentQuestionIndex).answers)
  /\ userAnswers' = AnswerSelect(userAnswers, currentQuestionIndex, answerIndex)
  /\ UNCHANGED <<appState, file, fileData, topics, selectedTopics, questionCount,
                 quizData, currentQuestionIndex, error, loadingMessage, tasks>>
  /\ Render

\* an advance whose bound is one too large
HandleNextQuestion_OffByOne ==
  /\ IF currentQuestionIndex < Len(quizData)
     THEN currentQuestionIndex' = currentQuestionIndex + 1 /\ UNCHANGED appState
     ELSE appState' = REVIEW /\ UNCHANGED currentQuestionIndex
  /\ UNCHANGED <<file, fileData, topics, selectedTopics, questionCount, quizData,
                 userAnswers, error, loadingMessage, tasks>>
  /\ Render

\* lines 318-324
HandleNextQuestion ==
  /\ IF currentQuestionIndex < Len(quizData) - 1
     THEN currentQuestionIndex' = currentQuestionIndex + 1 /\ UNCHANGED appState
     ELSE appState' = REVIEW /\ UNCHANGED currentQuestionIndex
  /\ UNCHANGED <<file, fileData, topics, selectedTopics, questionCount, quizData,
                 userAnswers, error, loadingMessage, tasks>>
  /\ Render

\* a Next / Finish button that is never disabled
ClickNextQuestion_AlwaysEnabled ==
  /\ mounted
  /\ appState = TAKING_QUIZ
  /\ HandleNextQuestion

\* the Next / Finish button (lines 451-457): disabled until the current
\* question has an answer
ClickNextQuestion ==
  /\ mounted
  /\ appState = TAKING_QUIZ
  /\ UserAnswerIndex(userAnswers, currentQuestionIndex) # Null
  /\ HandleNextQuestion

\* a Start New Quiz that starts the same quiz again
HandleStartOver_Retake ==
  /\ mounted
  /\ appState = REVIEW
  /\ appState' = TAKING_QUIZ
  /\ currentQuestionIndex' = 0
  /\ userAnswers' = <<>>
  /\ error' = Null
  /\ UNCHANGED <<file, fileData, topics, selectedTopics, quizData, questionCount,
                 loadingMessage, tasks>>
  /\ Render

\* lines 326-335, from the button of renderReview (lines 470-475)
HandleStartOver ==
  /\ mounted
  /\ appState = REVIEW
  /\ appState' = SETUP
  /\ file' = Null
  /\ fileData' = Null
  /\ topics' = <<>>
  /\ selectedTopics' = <<>>
  /\ quizData' = <<>>
  /\ userAnswers' = <<>>
  /\ error' = Null
  /\ UNCHANGED <<questionCount, currentQuestionIndex, loadingMessage, tasks>>
  /\ Render

----------------------------------------------------------------------------
(* The session: every user event and every completion of a remote call *)

Failures == Thrown \cup {SyntaxError}

Next ==
  \/ \E f \in Files : HandleFileChange(f)
  \/ \E i \in DOMAIN tasks : FileToBase64Resolves(i)
  \/ \E i \in DOMAIN tasks : FileToBase64Rejects(i)
  \/ \E i \in DOMAIN tasks : \E r \in ExtractResponses : ExtractTopicsReturns(i, r)
  \/ \E i \in DOMAIN tasks : \E e \in Failures : ExtractTopicsFails(i, e)
  \/ \E t \in {"Networking", "Security"} : HandleTopicToggle(t)
  \/ \E n \in SliderValues : SetQuestionCount(n)
  \/ ClickGenerateQuiz
  \/ \E i \in DOMAIN tasks : \E r \in GroundingResponses : SearchReturns(i, r)
  \/ \E i \in DOMAIN tasks : \E e \in Thrown : SearchFails(i, e)
  \/ \E i \in DOMAIN tasks :
        /\ tasks[i].pc = "questionGenResponse"
        /\ \E n \in 0 .. MaxReturned : \E f \in [1 .. n -> SessionPatterns] :
              GenerationReturns(i, QuestionArray(f))
  \/ \E i \in DOMAIN tasks : \E e \in Failures : GenerationFails(i, e)
  \/ \E i \in DOMAIN tasks : HandleGenerateQuizResumes(i)
  \/ \E a \in 0 .. maxItems : HandleAnswerSelect(a)
  \/ ClickNextQuestion
  \/ HandleStartOver

Spec == Init /\ [][Next]_vars

----------------------------------------------------------------------------
(* generateQuizQuestions alone: uploads and calls of the generator on long
   responses, up to the point where its promise resolves *)

NextGen ==
  \/ \E f \in Files : HandleFileChange(f)
  \/ \E i \in DOMAIN tasks : FileToBase64Resolves(i)
  \/ \E i \in DOMAIN tasks : \E r \in ExtractResponses : ExtractTopicsReturns(i, r)
  \/ SetQuestionCount(MinQuestionCount)
  \/ ClickGenerateQuiz
  \/ \E i \in DOMAIN tasks : SearchReturns(i, [groundingMetadata |-> Null])
  \/ \E i \in DOMAIN tasks :
        /\ tasks[i].pc = "questionGenResponse"
        /\ \E n \in 0 .. MaxLongReturned : \E f \in [1 .. n -> LongPatterns] :
              GenerationReturns(i, QuestionArray(f))

SpecGen == Init /\ [][NextGen]_vars

----------------------------------------------------------------------------
(* The Setup screen with handleGenerateQuiz called whatever the button shows:
   uploads, topic selection and the handler run in any Setup state, so that
   its guard (lines 284-287) is exercised; a started generation ends when
   one of its two requests fails *)

\* lines 283-306 called in a Setup render, whether or not the button of
\* lines 405-411 is rendered and enabled
CallHandleGenerateQuiz ==
  /\ mounted
  /\ appState = SETUP
  /\ HandleGenerateQuiz

NextSetup ==
  \/ \E f \in Files : HandleFileChange(f)
  \/ \E i \in DOMAIN tasks : FileToBase64Resolves(i)
  \/ \E i \in DOMAIN tasks : FileToBase64Rejects(i)
  \/ \E i \in DOMAIN tasks : \E r \in ExtractResponses : ExtractTopicsReturns(i, r)
  \/ \E i \in DOMAIN tasks : \E e \in Failures : ExtractTopicsFails(i, e)
  \/ \E t \in {"Networking", "Security"} : HandleTopicToggle(t)
  \/ \E n \in SliderValues : SetQuestionCount(n)
  \/ CallHandleGenerateQuiz
  \/ \E i \in DOMAIN tasks : \E r \in GroundingResponses : SearchReturns(i, r)
  \/ \E i \in DOMAIN tasks : \E e \in Thrown : SearchFails(i, e)
  \/ \E i \in DOMAIN tasks : \E e \in Failures : GenerationFails(i, e)

SpecSetup == Init /\ [][NextSetup]_vars

----------------------------------------------------------------------------
(* The session with its pending calls completing: the FileReader fires
   onload or onerror, each request to the model is answered or rejected, and
   the event loop runs the continuation of a settled promise *)

\* a pending await of a handler settles and the handler runs on
Completion ==
  \E i \in DOMAIN tasks :
     \/ FileToBase64Resolves(i)
     \/ FileToBase64Rejects(i)
     \/ \E r \in ExtractResponses : ExtractTopicsReturns(i, r)
     \/ \E e \in Failures : ExtractTopicsFails(i, e)
     \/ \E r \in GroundingResponses : SearchReturns(i, r)
     \/ \E e \in Thrown : SearchFails(i, e)
     \/ /\ tasks[i].pc = "questionGenResponse"
        /\ \E n \in 0 .. MaxLiveReturned : \E f \in [1 .. n -> SessionPatterns] :
              GenerationReturns(i, QuestionArray(f))
     \/ \E e \in Failures : GenerationFails(i, e)
     \/ HandleGenerateQuizResumes(i)

\* uploads, topic selection and generation up to the start of the quiz
NextLive ==
  \/ \E f \in Files : HandleFileChange(f)
  \/ \E t \in {"Networking", "Security"} : HandleTopicToggle(t)
  \/ SetQuestionCount(MinQuestionCount)
  \/ ClickGenerateQuiz
  \/ Completion

SpecLive == Init /\ [][NextLive]_vars /\ WF_vars(Completion)

----------------------------------------------------------------------------

(* Properties *)

NumCorrect(q) == Cardinality({k \in DOMAIN q.answers : q.answers[k].isCorrect = TRUE})

\* C1: every question held in quizData has exactly one answer with
\* isCorrect = true, whatever the client returned and after the shuffles.
C1_ExactlyOneCorrect ==
  \A n \in DOMAIN quizData : NumCorrect(quizData[n]) = 1

\* a two-question quiz reached Review, the correct answers shuffled to
\* two different positions
C1_Witness ==
  /\ appState = REVIEW
  /\ Len(quizData) = 2
  /\ quizData[1].answers[2].isCorrect
  /\ quizData[2].answers[3].isCorrect

\* C2: every question held in quizData has exactly 4 answers, for every
\* question array the client returns under the response schema.
C2_FourAnswers ==
  \A n \in DOMAIN quizData : Len(quizData[n].answers) = 4

\* a two-question quiz is being taken, the second question on screen
C2_Witness ==
  /\ appState = TAKING_QUIZ
  /\ Len(quizData) = 2
  /\ currentQuestionIndex = 1

\* the user answers whose selected answer is the correct one
CorrectlyAnswered ==
  {k \in DOMAIN userAnswers :
     At(At(quizData, userAnswers[k].questionIndex).answers, userAnswers[k].answerIndex).isCorrect}

\* C3: in every state the score is defined, lies between 0 and
\* quizData.length, and is the number of user answers whose selected answer
\* has isCorrect = true.
C3_Score ==
  /\ ~ScoreThrows(userAnswers, quizData)
  /\ score >= 0
  /\ score <= Len(quizData)
  /\ score = Cardinality(CorrectlyAnswered)

\* Review of a two-question quiz with one right and one wrong answer
C3_Witness ==
  /\ appState = REVIEW
  /\ Len(quizData) = 2
  /\ Len(userAnswers) = 2
  /\ score = 1

\* C4: userAnswers holds at most one entry per questionIndex; selecting an
\* answer of an answered question replaces that entry's answerIndex and
\* changes neither the count nor the other entries, selecting an answer of an
\* unanswered question adds one entry, and selecting the same answer twice
\* gives what selecting it once gives.
C4_UpdateNotAppend ==
  /\ \A j, k \in DOMAIN userAnswers :
        userAnswers[j].questionIndex = userAnswers[k].questionIndex => j = k
  /\ (appState = TAKING_QUIZ /\ mounted) =>
       \A a \in Indices(At(quizData, currentQuestionIndex).answers) :
          LET once == AnswerSelect(userAnswers, currentQuestionIndex, a)
              twice == AnswerSelect(once, currentQuestionIndex, a)
              answered == {k \in DOMAIN userAnswers :
                             userAnswers[k].questionIndex = currentQuestionIndex}
          IN /\ twice = once
             /\ \A k \in DOMAIN userAnswers \ answered : once[k] = userAnswers[k]
             /\ \A k \in answered :
                   once[k] = [questionIndex |-> currentQuestionIndex, answerIndex |-> a]
             /\ answered # {} => Len(once) = Len(userAnswers)
             /\ answered = {} =>
                   /\ Len(once) = Len(userAnswers) + 1
                   /\ once[Len(once)] = [questionIndex |-> currentQuestionIndex, answerIndex |-> a]
             /\ (answered # {} /\ UserAnswerIndex(userAnswers, currentQuestionIndex) = Some(a))
                   => once = userAnswers

\* the second question is on screen and already has an answer, so a further
\* selection takes the update path
C4_Witness ==
  /\ appState = TAKING_QUIZ
  /\ currentQuestionIndex = 1
  /\ Len(userAnswers) = 2
  /\ UserAnswerIndex(userAnswers, 1) = Some(3)

Occurrences(s, x) == Cardinality({k \in DOMAIN s : s[k] = x})

\* the same answers, each as often, in some order
SameAnswers(a, b) ==
  /\ Len(a) = Len(b)
  /\ \A k \in DOMAIN a : Occurrences(a, a[k]) = Occurrences(b, a[k])

\* q is p with its answers in some order
SameQuestion(q, p) ==
  /\ q.question = p.question
  /\ q.source = p.source
  /\ SameAnswers(q.answers, p.answers)

\* the same questions, each as often, in some order, each with its own
\* answers in some order
IsShuffleOf(new, old) ==
  /\ Len(new) = Len(old)
  /\ \A n \in DOMAIN old :
        Cardinality({m \in DOMAIN new : SameQuestion(new[m], old[n])})
          = Cardinality({m \in DOMAIN old : SameQuestion(old[m], old[n])})

\* C5: when a generation succeeds, the quizData that is stored is the
\* question sequence generateQuizQuestions returned, in some order, and each
\* question keeps its stem, its source and its own answers (text, isCorrect
\* and feedback together), in some order.
C5_ShufflePreservesMembership ==
  [][\A i \in DOMAIN tasks :
        (tasks[i].pc = "questions" /\ appState' = TAKING_QUIZ)
          => IsShuffleOf(quizData', tasks[i].questions)]_vars

\* a quiz whose question order and answer order both differ from the
\* response: question 2 comes first, its correct answer in third place
C5_Witness ==
  /\ appState = TAKING_QUIZ
  /\ Len(quizData) = 2
  /\ quizData[1].question = 2
  /\ quizData[1].answers[3].isCorrect

\* C6: when the client classifies the document with isGuide = false,
\* whatever topics it lists, the session ends in Setup with the error set to
\* the "not a valid exam guide" message, no topics, no selected topics, and
\* file and fileData cleared; the handler is finished.
C6_NonGuideRejected ==
  [][\A i \in DOMAIN tasks : \A t \in TopicLists :
        ExtractTopicsReturns(i, [isGuide |-> FALSE, topics |-> t])
          => /\ appState' = SETUP
             /\ error' = Some(NotGuideMessage)
             /\ topics' = <<>>
             /\ selectedTopics' = <<>>
             /\ file' = Null
             /\ fileData' = Null
             /\ tasks' = RemoveAt(tasks, i)]_vars

\* the session is back in Setup showing the "not a valid exam guide" message
C6_Witness ==
  /\ appState = SETUP
  /\ error = Some(NotGuideMessage)
  /\ tasks = <<>>

\* the questions of a response that have exactly one correct answer
KeptIndices(response) == {n \in DOMAIN response : NumCorrect(response[n]) = 1}

\* the j-th of them, in the order of the response
NthKept(response, j) ==
  CHOOSE n \in KeptIndices(response) :
    Cardinality({m \in KeptIndices(response) : m < n}) = j - 1

TwoCorrect(response) == {n \in DOMAIN response : NumCorrect(response[n]) = 2}

\* C7: the promise of generateQuizQuestions resolves with exactly the
\* returned questions that have exactly one correct answer, in the order of
\* the response; a response of 10 questions, 2 of them with 2 correct answers
\* and the others valid, gives 8; and the call has issued one grounding and
\* one generation request, no more.
C7_PostValidation ==
  \A i \in DOMAIN tasks :
     tasks[i].pc = "questions" =>
        LET response == tasks[i].response
            questions == tasks[i].questions
        IN /\ Len(questions) = Cardinality(KeptIndices(response))
           /\ \A j \in DOMAIN questions : questions[j] = response[NthKept(response, j)]
           /\ (/\ Len(response) = 10
               /\ Cardinality(TwoCorrect(response)) = 2
               /\ Cardinality(KeptIndices(response)) = 8) => Len(questions) = 8
           /\ Len(tasks[i].requests) = 2
           /\ tasks[i].requests[1].googleSearch
           /\ tasks[i].requests[2].responseSchema = "quiz"

\* the scenario: 10 returned, 2 of them with 2 correct answers, 8 kept
C7_Witness ==
  \E i \in DOMAIN tasks :
     /\ tasks[i].pc = "questions"
     /\ Len(tasks[i].response) = 10
     /\ Cardinality(TwoCorrect(tasks[i].response)) = 2
     /\ Cardinality(KeptIndices(tasks[i].response)) = 8
     /\ Len(tasks[i].questions) = 8

\* C8: generateQuizQuestions resolves with at most questionCount questions,
\* and quizData holds at most questionCount questions after a successful
\* generation.
C8_AtMostN ==
  /\ \A i \in DOMAIN tasks :
        tasks[i].pc = "questions" => Len(tasks[i].questions) <= tasks[i].questionCount[1]
  /\ appState \in {TAKING_QUIZ, REVIEW} => Len(quizData) <= questionCount

ZeroCitations == {r \in GroundingResponses : GroundingChunks(r) = <<>>}

FallbackSources == [text |-> NoSourcesText, sources |-> <<>>]

\* C9: when the grounding response carries no grounding metadata or no
\* grounding chunks, the call does not fail: the session stays in Generating
\* without an error, the generation request goes out with the fixed "rely
\* solely on the provided exam guide" text and no source list, and when its
\* response arrives the call resolves with the questions that have exactly
\* one correct answer.
C9_ZeroCitationsStillGenerate ==
  [][\A i \in DOMAIN tasks :
        /\ \A r \in ZeroCitations :
              SearchReturns(i, r)
                => /\ appState' = GENERATING
                   /\ error' = Null
                   /\ Len(tasks') = Len(tasks)
                   /\ tasks'[i].pc = "questionGenResponse"
                   /\ Len(tasks'[i].requests) = Len(tasks[i].requests) + 1
                   /\ tasks'[i].requests[Len(tasks'[i].requests)].responseSchema = "quiz"
                   /\ tasks'[i].requests[Len(tasks'[i].requests)].sourcesText
                        = Some(FallbackSources)
        /\ (/\ tasks[i].pc = "questionGenResponse"
            /\ tasks[i].sourcesText = Some(FallbackSources)
            /\ Len(tasks') = Len(tasks)
            /\ tasks'[i].pc = "questions")
              => /\ appState' = GENERATING
                 /\ error' = Null
                 /\ Len(tasks'[i].questions) = Cardinality(KeptIndices(tasks'[i].response))
                 /\ \A j \in DOMAIN tasks'[i].questions :
                       NumCorrect(tasks'[i].questions[j]) = 1]_vars

\* a call that found no citation has resolved with a two-question quiz
C9_Witness ==
  \E i \in DOMAIN tasks :
     /\ tasks[i].pc = "questions"
     /\ tasks[i].sourcesText = Some(FallbackSources)
     /\ Len(tasks[i].questions) = 2

\* C10: the phase goes from TakingQuiz to Review only by advancing from the
\* last question once it has an answer, and advancing from the last question
\* does that; advancing from an earlier question adds one to
\* currentQuestionIndex and keeps the phase; nothing else moves the index or
\* the phase during the quiz; and Review is left only for Setup, so one quiz
\* attempt enters Review once.
C10_ReviewOnceFromLastQuestion ==
  [][/\ (appState = TAKING_QUIZ /\ appState' = REVIEW)
          => /\ currentQuestionIndex = Len(quizData) - 1
             /\ UserAnswerIndex(userAnswers, currentQuestionIndex) # Null
             /\ ClickNextQuestion
     /\ (ClickNextQuestion /\ currentQuestionIndex = Len(quizData) - 1)
          => appState' = REVIEW /\ currentQuestionIndex' = currentQuestionIndex
     /\ (ClickNextQuestion /\ currentQuestionIndex < Len(quizData) - 1)
          => appState' = TAKING_QUIZ /\ currentQuestionIndex' = currentQuestionIndex + 1
     /\ (appState = TAKING_QUIZ /\ currentQuestionIndex' # currentQuestionIndex)
          => ClickNextQuestion
     /\ appState = TAKING_QUIZ => appState' \in {TAKING_QUIZ, REVIEW}
     /\ appState = REVIEW => appState' \in {REVIEW, SETUP}
     /\ appState' = TAKING_QUIZ => appState \in {TAKING_QUIZ, GENERATING}]_vars

\* Review of a two-question quiz: the user advanced once and then finished
C10_Witness ==
  /\ appState = REVIEW
  /\ Len(quizData) = 2
  /\ currentQuestionIndex = 1
  /\ Len(userAnswers) = 2

----------------------------------------------------------------------------

\* C11: Start New Quiz puts every session field back to its initial value:
\* phase Setup, no file, no fileData, no topics, no selected topics,
\* questionCount at its default, no quizData, currentQuestionIndex 0, no
\* userAnswers, no error.
C11_StartOverResetsAll ==
  [][HandleStartOver =>
       /\ appState' = SETUP
       /\ file' = Null
       /\ fileData' = Null
       /\ topics' = <<>>
       /\ selectedTopics' = <<>>
       /\ questionCount' = DefaultQuestionCount
       /\ quizData' = <<>>
       /\ currentQuestionIndex' = 0
       /\ userAnswers' = <<>>
       /\ error' = Null]_vars

\* C12: when handleGenerateQuiz runs with no selected topic or with no
\* fileData, the phase stays Setup, no request is issued, quizData and
\* userAnswers are unchanged and only the error message is set; and the
\* phase goes from Setup to Generating only with at least one selected topic
\* and with fileData present.
C12_GuardRefusesGeneration ==
  [][/\ (CallHandleGenerateQuiz /\ (fileData = Null \/ Len(selectedTopics) = 0))
          => /\ appState' = SETUP
             /\ tasks' = tasks
             /\ quizData' = quizData
             /\ userAnswers' = userAnswers
             /\ error' = Some(SelectTopicMessage)
             /\ UNCHANGED <<file, fileData, topics, selectedTopics, questionCount,
                            currentQuestionIndex, loadingMessage>>
     /\ (appState = SETUP /\ appState' = GENERATING)
          => /\ Len(selectedTopics) > 0
             /\ fileData # Null
             /\ Len(tasks') = Len(tasks) + 1]_vars

\* the handler has run on an analysed guide whose topics were all deselected
C12_Witness ==
  /\ appState = SETUP
  /\ error = Some(SelectTopicMessage)
  /\ fileData # Null
  /\ Len(topics) > 0
  /\ Len(selectedTopics) = 0
  /\ tasks = <<>>

UserEvent ==
  \/ \E f \in Files : HandleFileChange(f)
  \/ \E t \in {"Networking", "Security"} : HandleTopicToggle(t)
  \/ \E n \in SliderValues : SetQuestionCount(n)
  \/ ClickGenerateQuiz
  \/ \E a \in 0 .. maxItems : HandleAnswerSelect(a)
  \/ ClickNextQuestion
  \/ HandleStartOver

\* C14: at most one remote operation is in flight at any time: an analysis
\* is pending exactly in Analyzing and a generation exactly in Generating,
\* and in these two phases no user event is possible, so none can start
\* another operation.
C14_AtMostOneInFlight ==
  /\ Len(tasks) <= 1
  /\ appState = ANALYZING <=> (\E i \in DOMAIN tasks : tasks[i].op = "handleFileChange")
  /\ appState = GENERATING <=> (\E i \in DOMAIN tasks : tasks[i].op = "handleGenerateQuiz")
  /\ \A i \in DOMAIN tasks : Len(tasks[i].requests) <= 2
  /\ appState \in {ANALYZING, GENERATING} => ~ ENABLED UserEvent

\* the generation request of the one pending operation is outstanding
C14_Witness ==
  /\ appState = GENERATING
  /\ Len(tasks) = 1
  /\ tasks[1].pc = "questionGenResponse"
  /\ Len(tasks[1].requests) = 2

\* C15: no reachable state prevents a restart: from every reachable state
\* some sequence of events leads back to Setup. Such a sequence needs a
\* first step, so outside Setup some event or completion must be possible;
\* this is the part stated here.
C15_RestartAlwaysPossible ==
  appState # SETUP => ENABLED Next

\* C16: every failure has a fallback and nothing is retried: with every
\* pending call eventually returning or failing, Analyzing always leads to
\* Setup and Generating always leads to Setup or TakingQuiz; the phase is
\* Analyzing or Generating only while a call is pending; a failure ends the
\* operation without a further request, and a new operation starts only by
\* a user event.
C16_EveryFailureFallsBack ==
  /\ (appState = ANALYZING) ~> (appState = SETUP)
  /\ (appState = GENERATING) ~> (appState \in {SETUP, TAKING_QUIZ})
  /\ [](appState \in {ANALYZING, GENERATING} => tasks # <<>>)
  /\ [][/\ (appState \in {ANALYZING, GENERATING} /\ error' # Null) => tasks' = <<>>
        /\ Len(tasks') > Len(tasks) => UserEvent]_vars

\* an analysis failed on a rejected request and the session fell back to
\* Setup with nothing pending
C16_Witness ==
  /\ appState = SETUP
  /\ error = Some(TransportError.message)
  /\ file = Null
  /\ fileData = Null
  /\ tasks = <<>>

\* C17: when the extraction answers with a guide and a non-empty topic list,
\* the phase goes from Analyzing to Setup with topics equal to the extracted
\* list, selectedTopics equal to topics, no error, and the file and its
\* fileData kept.
C17_ExtractionSuccess ==
  [][\A i \in DOMAIN tasks : \A r \in ExtractResponses :
       (/\ r.isGuide
        /\ r.topics # Null
        /\ Len(r.topics[1]) > 0
        /\ ExtractTopicsReturns(i, r))
         => /\ appState = ANALYZING
            /\ appState' = SETUP
            /\ topics' = r.topics[1]
            /\ selectedTopics' = topics'
            /\ error' = Null
            /\ file # Null
            /\ file' = file
            /\ fileData' = Some([base64 |-> fileToBase64(file[1]),
                                 mimeType |-> file[1].type])
            /\ tasks' = <<>>]_vars

\* the Setup screen of an analysed guide: all extracted topics selected
C17_Witness ==
  /\ appState = SETUP
  /\ topics = <<"Networking", "Security">>
  /\ selectedTopics = topics
  /\ error = Null
  /\ file # Null
  /\ fileData # Null
  /\ tasks = <<>>

\* C18: when the extraction answers with a guide whose topic list is missing
\* or empty, extractTopicsFromGuide returns the empty list without throwing
\* and the session goes from Analyzing to Setup with the "Could not find any
\* topics" error, topics and selectedTopics empty and file and fileData
\* cleared, so that generation cannot be started from that upload.
C18_NoTopicsIsUsageError ==
  /\ [](error = Some(NoTopicsMessage) => ~ ENABLED ClickGenerateQuiz)
  /\ [][\A i \in DOMAIN tasks : \A r \in ExtractResponses :
          (/\ r.isGuide
           /\ (r.topics = Null \/ r.topics = Some(<<>>))
           /\ ExtractTopicsReturns(i, r))
            => /\ appState = ANALYZING
               /\ appState' = SETUP
               /\ error' = Some(NoTopicsMessage)
               /\ topics' = <<>>
               /\ selectedTopics' = <<>>
               /\ file' = Null
               /\ fileData' = Null
               /\ tasks' = <<>>]_vars

\* an upload whose guide had no topics was turned down: the Setup screen
\* shows the error and offers only the file input
C18_Witness ==
  /\ appState = SETUP
  /\ error = Some(NoTopicsMessage)
  /\ topics = <<>>
  /\ selectedTopics = <<>>
  /\ file = Null
  /\ fileData = Null
  /\ tasks = <<>>

GroundingRequests(t) == {k \in DOMAIN t.requests : t.requests[k].googleSearch}
GenerationRequests(t) == {k \in DOMAIN t.requests : t.requests[k].responseSchema = "quiz"}

\* C19: within one call of generateQuizQuestions there is at most one
\* grounding request and at most one generation request; the generation
\* request comes second, is issued only when the grounding response has
\* arrived and its sources are listed, and is never issued when the
\* grounding request fails.
C19_GroundingThenGeneration ==
  /\ [](\A i \in DOMAIN tasks :
          tasks[i].op = "handleGenerateQuiz"
            => /\ GroundingRequests(tasks[i]) = {1}
               /\ GenerationRequests(tasks[i]) \subseteq {2}
               /\ DOMAIN tasks[i].requests = GroundingRequests(tasks[i])
                                               \cup GenerationRequests(tasks[i])
               /\ GenerationRequests(tasks[i]) = {2}
                    <=> tasks[i].pc \in {"questionGenResponse", "questions"}
               /\ GenerationRequests(tasks[i]) = {2} => tasks[i].sourcesText # Null)
  /\ [][/\ \A i \in DOMAIN tasks : \A e \in Thrown :
             SearchFails(i, e)
               => GenerationRequests(tasks[i]) = {} /\ tasks' = <<>>
        /\ \A i \in DOMAIN tasks :
             (/\ tasks[i].op = "handleGenerateQuiz"
              /\ i \in DOMAIN tasks'
              /\ GenerationRequests(tasks'[i]) # GenerationRequests(tasks[i]))
               => \E r \in GroundingResponses : SearchReturns(i, r)]_vars

\* the questions arrived from a generation request that lists the one
\* citation of the grounding response
C19_Witness ==
  \E i \in DOMAIN tasks :
     /\ tasks[i].pc = "questions"
     /\ Len(tasks[i].requests) = 2
     /\ tasks[i].requests[1].googleSearch
     /\ tasks[i].requests[2].responseSchema = "quiz"
     /\ tasks[i].requests[2].sourcesText = Some(SourcesText(<<WebChunk(1)>>))

Answered(ua) == {ua[k].questionIndex : k \in DOMAIN ua}

\* C20: from the start of a quiz until Start New Quiz no event removes a
\* UserAnswer: during TakingQuiz every entry keeps its place and its
\* question, so the set of answered questions only grows; the list goes
\* into Review unchanged and stays so there; the only step that removes an
\* entry is Start New Quiz.
C20_AnswersNeverDeleted ==
  [][/\ appState = TAKING_QUIZ
          => /\ Len(userAnswers') >= Len(userAnswers)
             /\ \A k \in DOMAIN userAnswers :
                   userAnswers'[k].questionIndex = userAnswers[k].questionIndex
             /\ Answered(userAnswers) \subseteq Answered(userAnswers')
     /\ (appState = TAKING_QUIZ /\ appState' = REVIEW) => userAnswers' = userAnswers
     /\ (appState = REVIEW /\ appState' = REVIEW) => userAnswers' = userAnswers
     /\ ~ (Answered(userAnswers) \subseteq Answered(userAnswers'))
          => (appState = REVIEW /\ HandleStartOver)]_vars

\* on the second question, answered, with the answer to the first still held
C20_Witness ==
  /\ appState = TAKING_QUIZ
  /\ currentQuestionIndex = 1
  /\ Answered(userAnswers) = {0, 1}
  /\ Len(userAnswers) = 2

\* the phase changes the handlers make
PhaseTransitions ==
  { <<SETUP, ANALYZING>>, <<ANALYZING, SETUP>>, <<SETUP, GENERATING>>,
    <<GENERATING, TAKING_QUIZ>>, <<GENERATING, SETUP>>,
    <<TAKING_QUIZ, REVIEW>>, <<REVIEW, SETUP>> }

\* C21: the phase changes only along Setup -> Analyzing, Analyzing -> Setup,
\* Setup -> Generating, Generating -> TakingQuiz, Generating -> Setup,
\* TakingQuiz -> Review and Review -> Setup, whatever the user does and
\* however the remote calls complete.
C21_OnlyListedTransitions ==
  [][appState' # appState => <<appState, appState'>> \in PhaseTransitions]_vars

\* back on the Setup screen after a whole round: upload, generation, a
\* two-question quiz, Review and Start New Quiz
C21_Witness ==
  /\ appState = SETUP
  /\ currentQuestionIndex = 1
  /\ file = Null
  /\ fileData = Null
  /\ quizData = <<>>
  /\ error = Null
  /\ tasks = <<>>

\* C22: whenever the phase is TakingQuiz, currentQuestionIndex is an index
\* of quizData, so the question rendered exists, whatever validated list
\* the generation produced, the empty one included.
C22_CurrentQuestionExists ==
  appState = TAKING_QUIZ
    => 0 <= currentQuestionIndex /\ currentQuestionIndex < Len(quizData)

\* C23: whenever the phase is Review, every question of the quiz has exactly
\* one user answer: userAnswers is as long as quizData and the answered
\* question indices are exactly 0 .. quizData.length - 1.
C23_ReviewFullyAnswered ==
  appState = REVIEW
    => /\ Len(userAnswers) = Len(quizData)
       /\ Answered(userAnswers) = Indices(quizData)
       /\ \A i \in Indices(quizData) :
             Cardinality({k \in DOMAIN userAnswers : userAnswers[k].questionIndex = i}) = 1

\* Review of a one-question quiz with its one answer
C23_Witness ==
  /\ appState = REVIEW
  /\ Len(quizData) = 1
  /\ Len(userAnswers) = 1
  /\ userAnswers[1].questionIndex = 0

\* C24: during TakingQuiz currentQuestionIndex never decreases; userAnswers
\* changes only by an answer selection, which writes the entry of the
\* current question and leaves the entries of all other questions, quizData,
\* the index and the phase as they are; so the answer of a question the
\* user has advanced past is never changed again.
C24_SelectionTargetsCurrentQuestion ==
  [][appState = TAKING_QUIZ
       => /\ currentQuestionIndex' >= currentQuestionIndex
          /\ \A a \in 0 .. maxItems :
                HandleAnswerSelect(a)
                  => /\ UNCHANGED <<quizData, appState, currentQuestionIndex>>
                     /\ UserAnswerIndex(userAnswers', currentQuestionIndex) = Some(a)
                     /\ \A k \in DOMAIN userAnswers :
                           userAnswers[k].questionIndex # currentQuestionIndex
                             => userAnswers'[k] = userAnswers[k]
                     /\ \A k \in DOMAIN userAnswers' :
                           k \notin DOMAIN userAnswers
                             => userAnswers'[k].questionIndex = currentQuestionIndex
          /\ userAnswers' # userAnswers
                => \E a \in 0 .. maxItems : HandleAnswerSelect(a)
          /\ \A k \in DOMAIN userAnswers :
                userAnswers[k].questionIndex < currentQuestionIndex
                  => k \in DOMAIN userAnswers' /\ userAnswers'[k] = userAnswers[k]]_vars

\* on the second question the user changed their mind: its entry holds the
\* last choice and the entry of the first question is as it was
C24_Witness ==
  /\ appState = TAKING_QUIZ
  /\ currentQuestionIndex = 1
  /\ userAnswers = <<[questionIndex |-> 0, answerIndex |-> 0],
                     [questionIndex |-> 1, answerIndex |-> 3]>>

====
